---- MODULE Spec2Model ----
(***************************************************************************)
(* Task manager: the PostgreSQL-backed DatabaseHandler (data_handler.py)   *)
(* and the JSON-file variant (kk.py).                                      *)
(*                                                                         *)
(* Python text is a sequence of one-character strings, so that lower(),    *)
(* substring search, split(',') and strip() are computed and not assumed.  *)
(* A dynamically typed value (a JSONB cell, a dict entry that may be None) *)
(* is a record [t, v] whose t is the Python type.                          *)
(***************************************************************************)
EXTENDS Integers, Sequences, FiniteSets, TLC

VARIABLES
    tasks_table,   \* rows of the SQL table "tasks", in the order a SELECT yields them
    call,          \* the DatabaseHandler call that has returned to the caller, NoCall between calls
    kk_file,       \* kk.py: the task list held in tasks.json
    kk_call,       \* kk.py: the call that has returned to the caller, NoCall between calls
    session_state, \* app.py: st.session_state, the keys the form callbacks write
    ai_helper,     \* app.py: get_ai_helper() has returned an AiTaskHelper, not None
    app_run        \* app.py: the callback or form submit of the last script run

vars == <<tasks_table, call, kk_file, kk_call, session_state, ai_helper, app_run>>

\* the variables of app.py
app_vars == <<session_state, ai_helper, app_run>>

----------------------------------------------------------------------------
(* Bounds *)

MaxTasks == 2      \* rows in the table / tasks in tasks.json

----------------------------------------------------------------------------
(* Python values *)

PyNone == [t |-> "none", v |-> <<>>]
PyStr(s) == [t |-> "str", v |-> s]
PyList(l) == [t |-> "list", v |-> l]
PyDate(d) == [t |-> "date", v |-> d]
PyTime(n) == [t |-> "datetime", v |-> n]     \* a datetime, as a count of seconds
PyDict(d) == [t |-> "dict", v |-> d]

\* truthiness of None / str / list / date / datetime / a dict with keys
Truthy(x) == IF x.t = "none" THEN FALSE
             ELSE IF x.t \in {"date", "datetime", "dict"} THEN TRUE
             ELSE Len(x.v) > 0

----------------------------------------------------------------------------
(* str methods *)

LowerChar(c) ==
    CASE c = "A" -> "a"
      [] c = "B" -> "b"
      [] c = "C" -> "c"
      [] c = "X" -> "x"
      [] c = "Y" -> "y"
      [] OTHER -> c

\* str.lower()
Lower(s) == [i \in 1..Len(s) |-> LowerChar(s[i])]

\* sub in s
Contains(sub, s) ==
    \E i \in 0..(Len(s) - Len(sub)) : SubSeq(s, i + 1, i + Len(sub)) = sub

IsSpace(c) == c \in {" ", "\n", "\t"}

RECURSIVE LStrip(_)
LStrip(s) == IF Len(s) > 0 /\ IsSpace(s[1]) THEN LStrip(Tail(s)) ELSE s

RECURSIVE RStrip(_)
RStrip(s) == IF Len(s) > 0 /\ IsSpace(s[Len(s)])
             THEN RStrip(SubSeq(s, 1, Len(s) - 1)) ELSE s

\* str.strip()
Strip(s) == RStrip(LStrip(s))

\* index of the first sep in s, 0 when there is none
FirstIndex(s, sep) ==
    IF \E i \in 1..Len(s) : s[i] = sep
    THEN CHOOSE i \in 1..Len(s) : s[i] = sep /\ \A j \in 1..(i - 1) : s[j] # sep
    ELSE 0

\* str.split(sep) for a one-character sep: empty fields are kept
RECURSIVE Split(_, _)
Split(s, sep) ==
    LET i == FirstIndex(s, sep) IN
    IF i = 0 THEN <<s>>
    ELSE <<SubSeq(s, 1, i - 1)>> \o Split(SubSeq(s, i + 1, Len(s)), sep)

RECURSIVE StripNonEmpty(_)
StripNonEmpty(parts) ==
    IF parts = <<>> THEN <<>>
    ELSE IF Len(Strip(Head(parts))) > 0
         THEN <<Strip(Head(parts))>> \o StripNonEmpty(Tail(parts))
         ELSE StripNonEmpty(Tail(parts))

\* [tag.strip() for tag in tags.split(',') if tag.strip()]
SplitTags(s) == StripNonEmpty(Split(s, ","))

----------------------------------------------------------------------------
(* datetime: dates are <<year, month, day>> *)

DigitChars == <<"0", "1", "2", "3", "4", "5", "6", "7", "8", "9">>

IsDigit(c) == \E n \in 1..Len(DigitChars) : DigitChars[n] = c

DigitVal(c) == (CHOOSE n \in 1..Len(DigitChars) : DigitChars[n] = c) - 1

AllDigits(s) == \A i \in 1..Len(s) : IsDigit(s[i])

RECURSIVE ToInt(_)
ToInt(s) == IF s = <<>> THEN 0
            ELSE ToInt(SubSeq(s, 1, Len(s) - 1)) * 10 + DigitVal(s[Len(s)])

IsLeap(y) == y % 4 = 0 /\ (y % 100 # 0 \/ y % 400 = 0)

DaysInMonth(y, m) ==
    IF m = 2 THEN (IF IsLeap(y) THEN 29 ELSE 28)
    ELSE IF m \in {4, 6, 9, 11} THEN 30 ELSE 31

RECURSIVE DaysBeforeMonth(_, _)
DaysBeforeMonth(y, m) ==
    IF m = 1 THEN 0 ELSE DaysBeforeMonth(y, m - 1) + DaysInMonth(y, m - 1)

\* date.toordinal(): the order and the arithmetic of dates
ToOrdinal(d) ==
    LET y == d[1] - 1 IN
    y * 365 + (y \div 4) - (y \div 100) + (y \div 400)
      + DaysBeforeMonth(d[1], d[2]) + d[3]

\* datetime.date.max
DateMax == <<9999, 12, 31>>

\* strftime('%Y-%m-%d') of a date whose year has four digits (the padding of
\* an earlier year depends on the C library; no such date is among the inputs)
Strftime(d) ==
    << DigitChars[(d[1] \div 1000) + 1], DigitChars[((d[1] \div 100) % 10) + 1],
       DigitChars[((d[1] \div 10) % 10) + 1], DigitChars[(d[1] % 10) + 1], "-",
       DigitChars[(d[2] \div 10) + 1], DigitChars[(d[2] % 10) + 1], "-",
       DigitChars[(d[3] \div 10) + 1], DigitChars[(d[3] % 10) + 1] >>

\* %m and %d take one or two digits; %d also a space and a digit
FieldOk(p, allowSpace) ==
    \/ Len(p) \in {1, 2} /\ AllDigits(p)
    \/ allowSpace /\ Len(p) = 2 /\ p[1] = " " /\ IsDigit(p[2])

FieldVal(p) == IF p[1] = " " THEN DigitVal(p[2]) ELSE ToInt(p)

\* datetime.strptime(s, '%Y-%m-%d').date(): ok = FALSE stands for ValueError
Strptime(s) ==
    LET parts == Split(s, "-")
        bad == [ok |-> FALSE, date |-> <<>>]
    IN
    IF Len(parts) # 3 THEN bad
    ELSE IF ~(Len(parts[1]) = 4 /\ AllDigits(parts[1])) THEN bad
    ELSE IF ~(FieldOk(parts[2], FALSE) /\ FieldOk(parts[3], TRUE)) THEN bad
    ELSE LET y == ToInt(parts[1])
             m == FieldVal(parts[2])
             d == FieldVal(parts[3])
         IN IF y >= 1 /\ m \in 1..12 /\ d >= 1 /\ d <= DaysInMonth(y, m)
            THEN [ok |-> TRUE, date |-> <<y, m, d>>]
            ELSE bad

----------------------------------------------------------------------------
(* Stable sort, as sorted(items, key=...) *)

\* insert p after every element whose key is <= p.k
RECURSIVE InsertByKey(_, _)
InsertByKey(p, sorted) ==
    IF sorted = <<>> THEN <<p>>
    ELSE IF Head(sorted).k <= p.k
         THEN <<Head(sorted)>> \o InsertByKey(p, Tail(sorted))
         ELSE <<p>> \o sorted

RECURSIVE SortPairs(_)
SortPairs(pairs) ==
    IF pairs = <<>> THEN <<>>
    ELSE InsertByKey(pairs[Len(pairs)], SortPairs(SubSeq(pairs, 1, Len(pairs) - 1)))

\* sorted(items, key=...), keys[i] the key of items[i]: ascending by key,
\* equal keys in their input order
Sorted(items, keys) ==
    LET pairs == [i \in 1..Len(items) |-> [k |-> keys[i], x |-> items[i]]]
        out == SortPairs(pairs)
    IN [i \in 1..Len(out) |-> out[i].x]

----------------------------------------------------------------------------
(* DatabaseHandler: the table "tasks" *)

\* a dict key that is not present
PyMissing == [t |-> "missing", v |-> <<>>]

\* dict.get(key, default)
Get(x, default) == IF x.t = "missing" THEN default ELSE x

\* priority and status are only ever compared for equality: atomic strings
Enum(name) == [t |-> "str", v |-> name]

TaskIds == 1..MaxTasks

\* the ids of the rows, in row order
RowIds(rows) == {rows[i].id : i \in 1..Len(rows)}

\* add_task: due_date of task_data to the column value
AddDueDate(due) ==
    IF due.t = "str" /\ Truthy(due)
    THEN (IF Strptime(due.v).ok THEN PyDate(Strptime(due.v).date) ELSE PyNone)
    ELSE IF due.t = "missing" THEN PyNone ELSE due

\* variant: a comma-separated string is stored as it is
AddTags_KeepString(tags) == Get(tags, PyList(<<>>))

\* add_task: tags of task_data to the column value
AddTags(tags) ==
    LET given == Get(tags, PyList(<<>>)) IN
    IF given.t = "str" THEN PyList(SplitTags(given.v)) ELSE given

\* add_task: the row that is inserted at the time now of the database
\* server; created_at takes the column default now(), completed_at is not
\* among the inserted values and stays NULL
InsertData(task_id, task_data, now) ==
    [ id           |-> task_id,
      title        |-> Get(task_data.title, PyStr(<<>>)),
      description  |-> Get(task_data.description, PyStr(<<>>)),
      priority     |-> Get(task_data.priority, Enum("Medium")),
      status       |-> Get(task_data.status, Enum("Not Started")),
      due_date     |-> AddDueDate(task_data.due_date),
      tags         |-> AddTags(task_data.tags),
      created_at   |-> PyTime(now),
      completed_at |-> PyNone ]

\* variant: the id column is no primary key
InsertRefused_NoPrimaryKey(rows, row) ==
    \/ row.title.t = "none" \/ row.description.t = "none"
    \/ row.priority.t = "none" \/ row.status.t = "none"

\* the INSERT is refused: primary key taken, or NULL in a NOT NULL column
InsertRefused(rows, row) ==
    \/ row.id \in RowIds(rows)
    \/ row.title.t = "none" \/ row.description.t = "none"
    \/ row.priority.t = "none" \/ row.status.t = "none"

\* get_all_tasks: one row as the dict the handler returns
RowToDict(row) ==
    [ id          |-> row.id,
      title       |-> row.title.v,
      description |-> row.description.v,
      priority    |-> row.priority.v,
      status      |-> row.status.v,
      due_date    |-> IF row.due_date.t = "date"
                      THEN PyStr(Strftime(row.due_date.v)) ELSE PyNone,
      tags        |-> row.tags ]

\* get_all_tasks: the dict, in row order; an error while reading gives {}
get_all_tasks(rows, db_ok) ==
    IF db_ok THEN [i \in 1..Len(rows) |-> RowToDict(rows[i])] ELSE <<>>

\* get_task_by_id: the row with the id as a dict, None when there is none
get_task_by_id(rows, task_id) ==
    LET found == SelectSeq(rows, LAMBDA row : row.id = task_id) IN
    IF found = <<>> THEN PyNone ELSE PyDict(RowToDict(found[1]))

----------------------------------------------------------------------------
(* DatabaseHandler.update_task *)

\* completed_at as update_task computes it at the time now of the caller
CompletedAt(rows, task_id, task_data, now) ==
    LET current_task == get_task_by_id(rows, task_id) IN
    IF Get(task_data.status, PyNone) = Enum("Completed")
       /\ Truthy(current_task) /\ current_task.v.status # "Completed"
    THEN PyTime(now) ELSE PyNone

\* variant: the update also writes created_at
UpdateData_TouchesCreatedAt(rows, task_id, task_data, now) ==
    [ title        |-> Get(task_data.title, PyNone),
      description  |-> Get(task_data.description, PyNone),
      priority     |-> Get(task_data.priority, PyNone),
      status       |-> Get(task_data.status, PyNone),
      due_date     |-> AddDueDate(task_data.due_date),
      tags         |-> AddTags(task_data.tags),
      created_at   |-> PyTime(now),
      completed_at |-> CompletedAt(rows, task_id, task_data, now) ]

\* update_data before the None values are removed
UpdateData(rows, task_id, task_data, now) ==
    [ title        |-> Get(task_data.title, PyNone),
      description  |-> Get(task_data.description, PyNone),
      priority     |-> Get(task_data.priority, PyNone),
      status       |-> Get(task_data.status, PyNone),
      due_date     |-> AddDueDate(task_data.due_date),
      tags         |-> AddTags(task_data.tags),
      completed_at |-> CompletedAt(rows, task_id, task_data, now) ]

\* UPDATE ... SET the values of update_data that are not None
UpdateRow(row, update_data) ==
    [k \in DOMAIN row |->
        IF k \in DOMAIN update_data /\ update_data[k].t # "none"
        THEN update_data[k] ELSE row[k]]

\* What an operation does with self.conn, the handler's one connection, in
\* the order it does it: "open" is _open_connection, "execute" is
\* self.conn.execute, "close" is _close_connection.

\* get_all_tasks, get_task_by_id, add_task, delete_task: one statement
\* between _open_connection and the _close_connection of the finally
OneStatement == <<"open", "execute", "close">>

\* update_task: get_task_by_id is called for a new status Completed, between
\* update_task's own _open_connection and its UPDATE
UpdateTaskConnection(task_data) ==
    <<"open">>
    \o (IF Get(task_data.status, PyNone) = Enum("Completed") THEN OneStatement ELSE <<>>)
    \o <<"execute", "close">>

\* self.conn is open after the first k events, None or closed before the
\* first: _open_connection connects when there is no open connection and
\* returns the open one otherwise, _close_connection closes an open one
RECURSIVE ConnOpenAfter(_, _)
ConnOpenAfter(events, k) ==
    IF k = 0 THEN FALSE
    ELSE IF events[k] = "open" THEN TRUE
    ELSE IF events[k] = "close" THEN FALSE
    ELSE ConnOpenAfter(events, k - 1)

\* some statement is executed on a connection that is closed
ExecutesOnClosed(events) ==
    \E i \in 1..Len(events) : events[i] = "execute" /\ ~ConnOpenAfter(events, i - 1)

\* self.conn is closed when the UPDATE is executed: get_task_by_id, called
\* for a new status Completed, runs on the handler's one connection and
\* closes it in its finally; execute then raises ResourceClosedError
ConnClosedAtExecute(task_data) == ExecutesOnClosed(UpdateTaskConnection(task_data))

----------------------------------------------------------------------------
(* DatabaseHandler.get_filtered_tasks *)

\* variant: the search looks at the title only
PassesSearch_TitleOnly(task, search_query) ==
    ~(Len(search_query) > 0)
    \/ Contains(Lower(search_query), Lower(task.title))

\* the search filter lets the task through
PassesSearch(task, search_query) ==
    ~(Len(search_query) > 0)
    \/ Contains(Lower(search_query), Lower(task.title))
    \/ Contains(Lower(search_query), Lower(task.description))

\* the tags the membership test runs on
TagList(tags) == IF tags.t = "str" THEN SplitTags(tags.v) ELSE tags.v

\* "filter_tag not in tags" raises TypeError when tags is None
TagTestRaises(task, filter_tag) == Truthy(filter_tag) /\ task.tags.t = "none"

\* variant: the tag test ignores letter case
PassesTag_IgnoreCase(task, filter_tag) ==
    ~Truthy(filter_tag)
    \/ \E i \in 1..Len(TagList(task.tags)) :
           Lower(TagList(task.tags)[i]) = Lower(filter_tag.v)

\* the tag filter lets the task through
PassesTag(task, filter_tag) ==
    ~Truthy(filter_tag)
    \/ \E i \in 1..Len(TagList(task.tags)) : TagList(task.tags)[i] = filter_tag.v

\* the filter loop reaches a task on which it raises
FilterRaises(all_tasks, search_query, filter_tag) ==
    \E i \in 1..Len(all_tasks) :
        PassesSearch(all_tasks[i], search_query) /\ TagTestRaises(all_tasks[i], filter_tag)

RECURSIVE FilterTasks(_, _, _)
FilterTasks(all_tasks, search_query, filter_tag) ==
    IF all_tasks = <<>> THEN <<>>
    ELSE LET task == Head(all_tasks)
             rest == FilterTasks(Tail(all_tasks), search_query, filter_tag)
         IN IF PassesSearch(task, search_query) /\ PassesTag(task, filter_tag)
            THEN <<task>> \o rest ELSE rest

\* variant: an unknown priority takes the default 2 and sorts with Low
PriorityKey_UnknownLast(task) ==
    CASE task.priority = "High" -> 0
      [] task.priority = "Medium" -> 1
      [] task.priority = "Low" -> 2
      [] OTHER -> 2

\* priority_order.get(task.get('priority', 'Medium'), 1)
PriorityKey(task) ==
    CASE task.priority = "High" -> 0
      [] task.priority = "Medium" -> 1
      [] task.priority = "Low" -> 2
      [] OTHER -> 1

\* variant: an unknown status takes the default 2 and sorts with Completed
StatusKey_UnknownLast(task) ==
    CASE task.status = "Not Started" -> 0
      [] task.status = "In Progress" -> 1
      [] task.status = "Completed" -> 2
      [] OTHER -> 2

\* status_order.get(task.get('status', 'Not Started'), 0)
StatusKey(task) ==
    CASE task.status = "Not Started" -> 0
      [] task.status = "In Progress" -> 1
      [] task.status = "Completed" -> 2
      [] OTHER -> 0

\* get_due_date: the date, datetime.date.max for None, '' or an unparseable string
DueDateKey(task) ==
    IF ~Truthy(task.due_date) THEN ToOrdinal(DateMax)
    ELSE IF Strptime(task.due_date.v).ok
         THEN ToOrdinal(Strptime(task.due_date.v).date)
         ELSE ToOrdinal(DateMax)

SortTasks(filtered_tasks, sort_by) ==
    LET n == Len(filtered_tasks) IN
    IF sort_by = "Priority"
    THEN Sorted(filtered_tasks, [i \in 1..n |-> PriorityKey(filtered_tasks[i])])
    ELSE IF sort_by = "Due Date"
    THEN Sorted(filtered_tasks, [i \in 1..n |-> DueDateKey(filtered_tasks[i])])
    ELSE IF sort_by = "Status"
    THEN Sorted(filtered_tasks, [i \in 1..n |-> StatusKey(filtered_tasks[i])])
    ELSE Sorted(filtered_tasks, [i \in 1..n |-> PriorityKey(filtered_tasks[i])])

\* the value get_filtered_tasks returns on the snapshot all_tasks ({} after an exception)
FilteredTasks(all_tasks, search_query, filter_tag, sort_by) ==
    IF FilterRaises(all_tasks, search_query, filter_tag) THEN <<>>
    ELSE SortTasks(FilterTasks(all_tasks, search_query, filter_tag), sort_by)

----------------------------------------------------------------------------
(* DatabaseHandler.get_all_tags *)

\* ord(c) of the characters that occur in tags
Ord(c) ==
    CASE c = " " -> 32
      [] c = "," -> 44
      [] c = "-" -> 45
      [] c = "A" -> 65
      [] c = "B" -> 66
      [] c = "C" -> 67
      [] c = "X" -> 88
      [] c = "Y" -> 89
      [] c = "a" -> 97
      [] c = "b" -> 98
      [] c = "c" -> 99
      [] c = "x" -> 120
      [] c = "y" -> 121
      [] OTHER -> 48 + DigitVal(c)

\* s1 < s2 for two str
RECURSIVE StrLess(_, _)
StrLess(s1, s2) ==
    IF s2 = <<>> THEN FALSE
    ELSE IF s1 = <<>> THEN TRUE
    ELSE IF Ord(Head(s1)) # Ord(Head(s2)) THEN Ord(Head(s1)) < Ord(Head(s2))
    ELSE StrLess(Tail(s1), Tail(s2))

\* sorted(list(set)) of str
RECURSIVE SortedStrs(_)
SortedStrs(set) ==
    IF set = {} THEN <<>>
    ELSE LET least == CHOOSE x \in set : \A y \in set \ {x} : StrLess(x, y)
         IN <<least>> \o SortedStrs(set \ {least})

\* what the loop adds to all_tags for one task
TagsOfTask(task) ==
    IF task.tags.t = "list" THEN task.tags.v
    ELSE IF task.tags.t = "str" /\ Truthy(task.tags) THEN SplitTags(task.tags.v)
    ELSE <<>>

\* the returned list; the only read that can raise is in get_all_tasks, which
\* then returns {}
AllTags(all_tasks) ==
    SortedStrs(UNION {{TagsOfTask(all_tasks[i])[n] : n \in 1..Len(TagsOfTask(all_tasks[i]))} :
                          i \in 1..Len(all_tasks)})

----------------------------------------------------------------------------
(* DatabaseHandler.get_task_statistics *)

\* counts[value] = counts.get(value, 0) + 1 for each value in turn
RECURSIVE CountInto(_, _)
CountInto(counts, values) ==
    IF values = <<>> THEN counts
    ELSE LET x == Head(values)
             old == IF x \in DOMAIN counts THEN counts[x] ELSE 0
         IN CountInto([k \in (DOMAIN counts) \cup {x} |->
                          IF k = x THEN old + 1 ELSE counts[k]], Tail(values))

\* variant: a status outside the three keys is not counted
StatusCounts_KnownOnly(all_tasks) ==
    CountInto([k \in {"Not Started", "In Progress", "Completed"} |-> 0],
              SelectSeq([i \in 1..Len(all_tasks) |-> all_tasks[i].status],
                        LAMBDA st : st \in {"Not Started", "In Progress", "Completed"}))

StatusCounts(all_tasks) ==
    CountInto([k \in {"Not Started", "In Progress", "Completed"} |-> 0],
              [i \in 1..Len(all_tasks) |-> all_tasks[i].status])

\* variant: the dict starts empty and holds only the priorities seen
PriorityCounts_SeenOnly(all_tasks) ==
    CountInto([k \in {} |-> 0], [i \in 1..Len(all_tasks) |-> all_tasks[i].priority])

PriorityCounts(all_tasks) ==
    CountInto([k \in {"High", "Medium", "Low"} |-> 0],
              [i \in 1..Len(all_tasks) |-> all_tasks[i].priority])

\* the task is counted by the overdue / due-soon loop, with its parsed due date
HasOpenDueDate(task) ==
    /\ task.status # "Completed"
    /\ Truthy(task.due_date)
    /\ Strptime(task.due_date.v).ok

\* variant: a task due today is overdue
IsOverdue_TodayIncluded(task, today) ==
    HasOpenDueDate(task) /\ ToOrdinal(Strptime(task.due_date.v).date) <= ToOrdinal(today)

IsOverdue(task, today) ==
    HasOpenDueDate(task) /\ ToOrdinal(Strptime(task.due_date.v).date) < ToOrdinal(today)

\* variant: the third day after today is not due soon
IsDueSoon_ThirdDayExcluded(task, today) ==
    /\ HasOpenDueDate(task)
    /\ ~(ToOrdinal(Strptime(task.due_date.v).date) < ToOrdinal(today))
    /\ ToOrdinal(Strptime(task.due_date.v).date) < ToOrdinal(today) + 3

IsDueSoon(task, today) ==
    /\ HasOpenDueDate(task)
    /\ ~(ToOrdinal(Strptime(task.due_date.v).date) < ToOrdinal(today))
    /\ ToOrdinal(Strptime(task.due_date.v).date) <= ToOrdinal(today) + 3

\* variant: the loop parses due_date without the "if due_date_str" guard;
\* strptime(None) raises TypeError, which the outer handler turns into the
\* zero report
TaskStatistics_UnguardedParse(all_tasks, today) ==
    LET raises == \E i \in 1..Len(all_tasks) :
                      /\ all_tasks[i].status # "Completed"
                      /\ all_tasks[i].due_date.t = "none"
        tasks == IF raises THEN <<>> ELSE all_tasks
    IN
    [ total_tasks     |-> Len(tasks),
      status_counts   |-> StatusCounts(tasks),
      priority_counts |-> PriorityCounts(tasks),
      overdue_count   |-> Cardinality({i \in 1..Len(tasks) : IsOverdue(tasks[i], today)}),
      due_soon_count  |-> Cardinality({i \in 1..Len(tasks) : IsDueSoon(tasks[i], today)}) ]

\* the report; nothing in the try block raises past its own handlers (the
\* ValueError of strptime is caught inside the loop, get_all_tasks catches its
\* own errors), so the zero report of the except branch is the report of an
\* empty snapshot
TaskStatistics(all_tasks, today) ==
    [ total_tasks     |-> Len(all_tasks),
      status_counts   |-> StatusCounts(all_tasks),
      priority_counts |-> PriorityCounts(all_tasks),
      overdue_count   |-> Cardinality({i \in 1..Len(all_tasks) : IsOverdue(all_tasks[i], today)}),
      due_soon_count  |-> Cardinality({i \in 1..Len(all_tasks) : IsDueSoon(all_tasks[i], today)}) ]

----------------------------------------------------------------------------
(* Inputs of the DatabaseHandler operations *)

\* task_data with only the required keys: every optional key takes its default
DefaultInput ==
    [ title       |-> PyStr(<<"A", "b">>),
      description |-> PyStr(<<"c">>),
      priority    |-> PyMissing,
      status      |-> PyMissing,
      due_date    |-> PyMissing,
      tags        |-> PyMissing ]

\* due_date strings: two ordinary days, the last representable day, month 13
DueDateInputs ==
    { <<"2", "0", "2", "5", "-", "0", "6", "-", "0", "9">>,
      <<"2", "0", "2", "5", "-", "0", "6", "-", "1", "3">>,
      <<"9", "9", "9", "9", "-", "1", "2", "-", "3", "1">>,
      <<"2", "0", "2", "5", "-", "1", "3", "-", "0", "1">> }

\* tags: None, a list, a comma-separated string, a list with a padded and an
\* empty element
TagsInputs ==
    { PyNone, PyList(<< <<"x">> >>), PyStr(<<"X", ",", " ", "y", ",">>),
      PyList(<< <<" ", "x">>, <<>> >>) }

\* task_data: DefaultInput changed in its text, or in one optional key
TaskInputs ==
    {DefaultInput}
    \cup {[DefaultInput EXCEPT !.title = PyStr(<<"c">>), !.description = PyStr(d)] :
              d \in {<<"c">>, <<"a", "b">>}}
    \cup {[DefaultInput EXCEPT !.priority = Enum(p)] : p \in {"High", "Low", "Urgent"}}
    \cup {[DefaultInput EXCEPT !.status = Enum(st)] :
              st \in {"In Progress", "Completed", "Blocked"}}
    \cup {[DefaultInput EXCEPT !.due_date = PyStr(d)] : d \in DueDateInputs}
    \cup {[DefaultInput EXCEPT !.tags = tg] : tg \in TagsInputs}

\* task_data of the tasks the statistics are taken of: a status, a priority,
\* a due date (DueDateInputs, the first of the month, the day of Todays and
\* the fourth day after it), or a Completed task that is due
StatsInputs ==
    {DefaultInput}
    \cup {[DefaultInput EXCEPT !.priority = Enum(p)] : p \in {"High", "Urgent"}}
    \cup {[DefaultInput EXCEPT !.status = Enum(st)] :
              st \in {"In Progress", "Completed", "Blocked"}}
    \cup {[DefaultInput EXCEPT !.due_date = PyStr(d)] :
              d \in DueDateInputs
                    \cup { <<"2", "0", "2", "5", "-", "0", "6", "-", "0", "1">>,
                           <<"2", "0", "2", "5", "-", "0", "6", "-", "1", "0">>,
                           <<"2", "0", "2", "5", "-", "0", "6", "-", "1", "4">> }}
    \cup {[DefaultInput EXCEPT
              !.status = Enum("Completed"),
              !.due_date = PyStr(<<"2", "0", "2", "5", "-", "0", "6", "-", "0", "1">>)]}

\* now() of the database server and datetime.now() of the caller
Nows == {1, 2}

\* the queries read no timestamp: under Spec every task is added at one time
QueryNows == {1}

\* add_task task_data of the write operations: the defaults, a task added as
\* Completed, a task with null tags, a task with a tag
StoreAddInputs ==
    { DefaultInput,
      [DefaultInput EXCEPT !.status = Enum("Completed")],
      [DefaultInput EXCEPT !.tags = PyNone],
      [DefaultInput EXCEPT !.tags = PyList(<< <<"x">> >>)] }

\* a dict with none of the keys update_task reads
NoFields ==
    [ title       |-> PyMissing,
      description |-> PyMissing,
      priority    |-> PyMissing,
      status      |-> PyMissing,
      due_date    |-> PyMissing,
      tags        |-> PyMissing ]

\* update_task task_data: a new status, with or without a new title and with
\* tags None or not given
UpdateInputs ==
    { [NoFields EXCEPT !.status = Enum("Completed")],
      [NoFields EXCEPT !.status = Enum("In Progress"), !.tags = PyNone],
      [NoFields EXCEPT !.title = PyStr(<<"c">>), !.status = Enum("Completed"),
                       !.tags = PyNone],
      [NoFields EXCEPT !.title = PyStr(<<"c">>)] }

SearchQueries == { <<>>, <<"B">> }

\* filter_tag: no tag selected (the session default), or a tag
FilterTags == { PyNone, PyStr(<<"x">>) }

SortKeys == { "Priority", "Due Date", "Status", "Created" }

\* datetime.date.today() at the time of the call
Todays == { <<2025, 6, 10>> }

\* the same, with a day whose third day after it is in the next month
StatsTodays == Todays \cup { <<2025, 5, 29>>, <<2025, 6, 11>> }

----------------------------------------------------------------------------
(* DatabaseHandler: operations.  The handler is used from one script run  *)
(* at a time: a call returns its value to the caller, and the caller is    *)
(* done with it (Return) before the next call is made.                     *)

NoArgs == [task_id |-> 0]

NoCall == [op |-> "none", args |-> NoArgs, all_tasks |-> <<>>, ret |-> <<>>]

\* add_task, as any caller sees it
AddTaskCall(task_id, task_data, now) ==
    LET row == InsertData(task_id, task_data, now) IN
    /\ call.op = "none"
    /\ tasks_table' = IF InsertRefused(tasks_table, row)
                      THEN tasks_table ELSE Append(tasks_table, row)
    /\ call' = [op |-> "add_task", args |-> [task_id |-> task_id, now |-> now],
                all_tasks |-> <<>>, ret |-> <<>>]

\* add_task, called on the handler directly
add_task(task_id, task_data, now) ==
    /\ AddTaskCall(task_id, task_data, now)
    /\ UNCHANGED <<app_vars, kk_file, kk_call>>

\* update_task, as any caller sees it
UpdateTaskCall(task_id, task_data, now) ==
    LET update_data == UpdateData(tasks_table, task_id, task_data, now)
        raises == ConnClosedAtExecute(task_data)
    IN
    /\ call.op = "none"
    /\ tasks_table' = IF raises THEN tasks_table
                      ELSE [i \in 1..Len(tasks_table) |->
                               IF tasks_table[i].id = task_id
                               THEN UpdateRow(tasks_table[i], update_data)
                               ELSE tasks_table[i]]
    /\ call' = [op |-> "update_task",
                args |-> [task_id |-> task_id, task_data |-> task_data, now |-> now],
                all_tasks |-> <<>>,
                ret |-> (~raises /\ task_id \in RowIds(tasks_table))]

\* update_task, called on the handler directly
update_task(task_id, task_data, now) ==
    /\ UpdateTaskCall(task_id, task_data, now)
    /\ UNCHANGED <<app_vars, kk_file, kk_call>>

\* variant: True is returned whether or not a row was deleted
delete_task_AlwaysTrue(task_id) ==
    /\ call.op = "none"
    /\ tasks_table' = SelectSeq(tasks_table, LAMBDA row : row.id # task_id)
    /\ call' = [op |-> "delete_task", args |-> [task_id |-> task_id],
                all_tasks |-> <<>>, ret |-> TRUE]
    /\ UNCHANGED <<app_vars, kk_file, kk_call>>

delete_task(task_id) ==
    /\ call.op = "none"
    /\ tasks_table' = SelectSeq(tasks_table, LAMBDA row : row.id # task_id)
    /\ call' = [op |-> "delete_task", args |-> [task_id |-> task_id],
                all_tasks |-> <<>>, ret |-> (task_id \in RowIds(tasks_table))]
    /\ UNCHANGED <<app_vars, kk_file, kk_call>>

get_filtered_tasks(search_query, filter_tag, sort_by, db_ok) ==
    LET all_tasks == get_all_tasks(tasks_table, db_ok) IN
    /\ call.op = "none"
    /\ call' = [op |-> "get_filtered_tasks",
                args |-> [search_query |-> search_query, filter_tag |-> filter_tag,
                          sort_by |-> sort_by],
                all_tasks |-> all_tasks,
                ret |-> FilteredTasks(all_tasks, search_query, filter_tag, sort_by)]
    /\ UNCHANGED <<app_vars, tasks_table, kk_file, kk_call>>

get_task_statistics(today, db_ok) ==
    LET all_tasks == get_all_tasks(tasks_table, db_ok) IN
    /\ call.op = "none"
    /\ call' = [op |-> "get_task_statistics", args |-> [today |-> today],
                all_tasks |-> all_tasks,
                ret |-> TaskStatistics(all_tasks, today)]
    /\ UNCHANGED <<app_vars, tasks_table, kk_file, kk_call>>

\* variant: the read repairs what it finds, writing [] over null tags
get_all_tags_WriteBack(db_ok) ==
    LET all_tasks == get_all_tasks(tasks_table, db_ok) IN
    /\ call.op = "none"
    /\ call' = [op |-> "get_all_tags", args |-> NoArgs,
                all_tasks |-> all_tasks,
                ret |-> AllTags(all_tasks)]
    /\ tasks_table' = [i \in 1..Len(tasks_table) |->
                          IF tasks_table[i].tags.t = "none"
                          THEN [tasks_table[i] EXCEPT !.tags = PyList(<<>>)]
                          ELSE tasks_table[i]]
    /\ UNCHANGED <<app_vars, kk_file, kk_call>>

get_all_tags(db_ok) ==
    LET all_tasks == get_all_tasks(tasks_table, db_ok) IN
    /\ call.op = "none"
    /\ call' = [op |-> "get_all_tags", args |-> NoArgs,
                all_tasks |-> all_tasks,
                ret |-> AllTags(all_tasks)]
    /\ UNCHANGED <<app_vars, tasks_table, kk_file, kk_call>>

\* the caller has used the returned value
Return ==
    /\ call.op # "none"
    /\ call' = NoCall
    /\ UNCHANGED <<app_vars, tasks_table, kk_file, kk_call>>

----------------------------------------------------------------------------
(* kk.py: the tasks.json variant.  A task keeps the keys the modelled      *)
(* operations read: ID, Priority, Status, Due Date, User, Assigned To.     *)

KkUsers == {"user1", "user2"}

\* add_task arguments: a default task changed in one argument
KkDefaultInput ==
    [ priority    |-> "Medium",
      due_date    |-> <<"2", "0", "2", "5", "-", "0", "6", "-", "1", "3">>,
      user        |-> "user1",
      assigned_to |-> "" ]

KkTaskInputs ==
    {KkDefaultInput}
    \cup {[KkDefaultInput EXCEPT !.priority = p] : p \in {"High", "Low", "Urgent"}}
    \cup {[KkDefaultInput EXCEPT !.due_date = d] :
              d \in { <<"2", "0", "2", "5", "-", "0", "6", "-", "0", "9">>,
                      <<"s", "o", "o", "n">> }}
    \cup {[KkDefaultInput EXCEPT !.user = "user2"]}
    \cup {[KkDefaultInput EXCEPT !.user = "user2", !.assigned_to = "user1"]}

KkNoCall == [op |-> "none", user |-> "", sort_by |-> "", raised |-> FALSE, ret |-> <<>>]

\* get_tasks(user) on the loaded list
kk_get_tasks_of(tasks, user) ==
    SelectSeq(tasks, LAMBDA task : task.User = user \/ task.AssignedTo = user)

\* priority_order.get(x["Priority"], 3)
KkPriorityKey(task) ==
    CASE task.Priority = "High" -> 1
      [] task.Priority = "Medium" -> 2
      [] task.Priority = "Low" -> 3
      [] OTHER -> 3

\* datetime.strptime(x["Due Date"], "%Y-%m-%d"), where it does not raise
KkDueDateKey(task) == ToOrdinal(Strptime(task.DueDate).date)

\* list.sort evaluates the key of every element: one ValueError ends the call
KkSortRaises(tasks, sort_by) ==
    sort_by = "Due Date" /\ \E i \in 1..Len(tasks) : ~Strptime(tasks[i].DueDate).ok

KkSorted(tasks, sort_by) ==
    IF sort_by = "Priority"
    THEN Sorted(tasks, [i \in 1..Len(tasks) |-> KkPriorityKey(tasks[i])])
    ELSE IF sort_by = "Due Date"
    THEN Sorted(tasks, [i \in 1..Len(tasks) |-> KkDueDateKey(tasks[i])])
    ELSE tasks

kk_add_task(input) ==
    /\ kk_call.op = "none"
    /\ Len(kk_file) < MaxTasks
    /\ kk_file' = Append(kk_file,
                         [ ID         |-> Len(kk_file) + 1,
                           Priority   |-> input.priority,
                           Status     |-> "Pending",
                           DueDate    |-> input.due_date,
                           User       |-> input.user,
                           AssignedTo |-> input.assigned_to ])
    /\ kk_call' = [KkNoCall EXCEPT !.op = "add_task"]
    /\ UNCHANGED <<app_vars, tasks_table, call>>

\* update_task(task_id, status), called from the "Update Task" page of the
\* session of user
kk_update_task(user, task_id, status) ==
    /\ kk_call.op = "none"
    /\ kk_file' = [i \in 1..Len(kk_file) |->
                      IF kk_file[i].ID = task_id
                      THEN [kk_file[i] EXCEPT !.Status = status] ELSE kk_file[i]]
    /\ kk_call' = [KkNoCall EXCEPT !.op = "update_task", !.user = user]
    /\ UNCHANGED <<app_vars, tasks_table, call>>

\* delete_task(task_id), called from the "Delete Task" page of the session
\* of user
kk_delete_task(user, task_id) ==
    /\ kk_call.op = "none"
    /\ kk_file' = SelectSeq(kk_file, LAMBDA task : task.ID # task_id)
    /\ kk_call' = [KkNoCall EXCEPT !.op = "delete_task", !.user = user]
    /\ UNCHANGED <<app_vars, tasks_table, call>>

kk_get_tasks(user) ==
    /\ kk_call.op = "none"
    /\ kk_call' = [KkNoCall EXCEPT !.op = "get_tasks", !.user = user,
                                   !.ret = kk_get_tasks_of(kk_file, user)]
    /\ UNCHANGED <<app_vars, tasks_table, call, kk_file>>

kk_sort_tasks(user, sort_by) ==
    LET tasks == kk_get_tasks_of(kk_file, user) IN
    /\ kk_call.op = "none"
    /\ kk_call' = [ op      |-> "sort_tasks",
                    user    |-> user,
                    sort_by |-> sort_by,
                    raised  |-> KkSortRaises(tasks, sort_by),
                    ret     |-> IF KkSortRaises(tasks, sort_by) THEN <<>>
                                ELSE KkSorted(tasks, sort_by) ]
    /\ UNCHANGED <<app_vars, tasks_table, call, kk_file>>

KkReturn ==
    /\ kk_call.op # "none"
    /\ kk_call' = KkNoCall
    /\ UNCHANGED <<app_vars, tasks_table, call, kk_file>>

----------------------------------------------------------------------------
(* utils.validate_task_input *)

MaxTitleLength == 100

\* variant: the length of the title is not looked at
validate_task_input_AnyLength(title, description) ==
    IF Len(title) = 0 \/ Len(Strip(title)) = 0
    THEN [valid |-> FALSE, message |-> "Task title cannot be empty"]
    ELSE IF Len(description) = 0 \/ Len(Strip(description)) = 0
    THEN [valid |-> FALSE, message |-> "Task description cannot be empty"]
    ELSE [valid |-> TRUE, message |-> "Task data is valid"]

validate_task_input(title, description) ==
    IF Len(title) = 0 \/ Len(Strip(title)) = 0
    THEN [valid |-> FALSE, message |-> "Task title cannot be empty"]
    ELSE IF Len(title) > MaxTitleLength
    THEN [valid |-> FALSE, message |-> "Task title is too long (maximum 100 characters)"]
    ELSE IF Len(description) = 0 \/ Len(Strip(description)) = 0
    THEN [valid |-> FALSE, message |-> "Task description cannot be empty"]
    ELSE [valid |-> TRUE, message |-> "Task data is valid"]

----------------------------------------------------------------------------
(* ai_helper.AiTaskHelper.analyze_task_description *)

MinDescriptionLength == 5

\* index of the first occurrence of sub in s, 0 when there is none
Find(s, sub) ==
    IF Contains(sub, s)
    THEN CHOOSE i \in 1..(Len(s) - Len(sub) + 1) :
             /\ SubSeq(s, i, i + Len(sub) - 1) = sub
             /\ \A j \in 1..(i - 1) : SubSeq(s, j, j + Len(sub) - 1) # sub
    ELSE 0

\* str.split(sep) for a sep of any length
RECURSIVE SplitOn(_, _)
SplitOn(s, sep) ==
    LET i == Find(s, sep) IN
    IF i = 0 THEN <<s>>
    ELSE <<SubSeq(s, 1, i - 1)>> \o SplitOn(SubSeq(s, i + Len(sep), Len(s)), sep)

\* str.split(sep, 1)
SplitOnce(s, sep) ==
    LET i == FirstIndex(s, sep) IN
    IF i = 0 THEN <<s>> ELSE <<SubSeq(s, 1, i - 1), SubSeq(s, i + 1, Len(s))>>

\* str.strip(c) for a one-character c
RECURSIVE StripChar(_, _)
StripChar(s, c) ==
    IF Len(s) > 0 /\ s[1] = c THEN StripChar(Tail(s), c)
    ELSE IF Len(s) > 0 /\ s[Len(s)] = c THEN StripChar(SubSeq(s, 1, Len(s) - 1), c)
    ELSE s

\* the character U+0060 (a TLA+ string cannot hold it)
Backtick == "backtick"

Fence == <<Backtick, Backtick, Backtick>>

JsonFence == Fence \o <<"j", "s", "o", "n">>

\* the response without its markdown code block
CleanResponse(response_text) ==
    IF Contains(JsonFence, response_text)
    THEN Strip(SplitOn(SplitOn(response_text, JsonFence)[2], Fence)[1])
    ELSE IF Contains(Fence, response_text)
    THEN Strip(SplitOn(SplitOn(response_text, Fence)[2], Fence)[1])
    ELSE response_text

\* lines = response_text.strip().strip("{").strip("}").split(",")
ResponseLines(response_text) ==
    Split(StripChar(StripChar(Strip(response_text), "{"), "}"), ",")

HasColon(line) == FirstIndex(line, ":") # 0

LineKey(line) == StripChar(Strip(SplitOnce(line, ":")[1]), "\"")

TagsKey == <<"t", "a", "g", "s">>

LineValue(line) ==
    LET value == StripChar(Strip(SplitOnce(line, ":")[2]), "\"")
        parts == Split(StripChar(StripChar(Strip(value), "["), "]"), ",")
    IN
    IF LineKey(line) = TagsKey
    THEN IF FirstIndex(value, "[") # 0 /\ FirstIndex(value, "]") # 0
         THEN PyList([i \in 1..Len(parts) |-> StripChar(Strip(parts[i]), "\"")])
         ELSE PyList(<<value>>)
    ELSE PyStr(value)

\* response_dict: the value of a key is the value of the last line with it
ResponseDict(lines) ==
    LET keyed == {i \in 1..Len(lines) : HasColon(lines[i])}
        last(key) == CHOOSE i \in keyed :
                         /\ LineKey(lines[i]) = key
                         /\ \A j \in keyed : LineKey(lines[j]) = key => j <= i
    IN
    [key \in {LineKey(lines[i]) : i \in keyed} |-> LineValue(lines[last(key)])]

ExpectedKeys ==
    { <<"p", "r", "i", "o", "r", "i", "t", "y">>, TagsKey,
      <<"e", "f", "f", "o", "r", "t">> }

\* what a call hands to its caller: a value, or an exception
Returns(value) == [raised |-> FALSE, value |-> value]

Raises == [raised |-> TRUE, value |-> PyNone]

\* variant: an error of the API is not caught
analyze_task_description_Uncaught(description, response) ==
    IF Len(description) < MinDescriptionLength
    THEN Returns(PyDict([success |-> FALSE,
                         message |-> "Description too short for analysis"]))
    ELSE IF response.raised
    THEN Raises
    ELSE LET response_dict == ResponseDict(ResponseLines(CleanResponse(response.text))) IN
         IF ExpectedKeys \subseteq DOMAIN response_dict
         THEN Returns(PyDict([success |-> TRUE, suggestions |-> response_dict]))
         ELSE Returns(PyDict([success |-> FALSE, message |-> "Invalid AI response format"]))

\* response: what generate_content(prompt) and response.text come to, the
\* text of the answer or an exception
analyze_task_description(description, response) ==
    IF Len(description) < MinDescriptionLength
    THEN Returns(PyDict([success |-> FALSE,
                         message |-> "Description too short for analysis"]))
    ELSE IF response.raised
    THEN Returns(PyDict([success |-> FALSE, message |-> "AI analysis error"]))
    ELSE LET response_dict == ResponseDict(ResponseLines(CleanResponse(response.text))) IN
         IF ExpectedKeys \subseteq DOMAIN response_dict
         THEN Returns(PyDict([success |-> TRUE, suggestions |-> response_dict]))
         ELSE Returns(PyDict([success |-> FALSE, message |-> "Invalid AI response format"]))

----------------------------------------------------------------------------
(* app.py: the session state of the task form.  A script run is one       *)
(* callback or one form submit; the queries of the run change nothing.     *)
(* The script runs one at a time and is done with a call of the handler    *)
(* (Return) before its next run.                                           *)

\* the keys of st.session_state as the script initialises them
NewSession ==
    [ show_task_form |-> FALSE,
      edit_task_id   |-> PyNone,
      ai_analyzing   |-> FALSE,
      ai_suggestions |-> PyNone ]

NoRun == [op |-> "none"]

\* an id of the table as edit_task_id
PyId(task_id) == [t |-> "id", v |-> task_id]

\* if st.session_state.edit_task_id: the ids the app stores are
\* str(uuid.uuid4()), never empty
EditBranch == session_state.edit_task_id.t # "none"

\* title and description of the form: valid with a title of one letter and
\* of MaxTitleLength letters; a title that is empty, or blank with no
\* description; a title of one letter more, with a description and with a
\* blank one; a blank title and a one-letter title padded with blanks, both
\* of that length; no description and a blank one
FormInputs ==
    LET a == <<"a">>
        b == <<"b">>
        long == MaxTitleLength + 1
    IN
    { <<a, b>>,
      <<[i \in 1..MaxTitleLength |-> "a"], b>>,
      <<<<>>, b>>,
      <<<<" ">>, <<>>>>,
      <<[i \in 1..long |-> "a"], b>>,
      <<[i \in 1..long |-> "a"], <<" ", " ">>>>,
      <<[i \in 1..long |-> " "], b>>,
      <<[i \in 1..long |-> IF i = 1 THEN "a" ELSE " "], b>>,
      <<a, <<>>>>,
      <<a, <<" ", " ">>>> }

\* the status selected in the edit form
FormStatuses == {"In Progress"}

\* due_date.strftime("%Y-%m-%d") of the date input
FormDueDate == <<"2", "0", "2", "5", "-", "0", "6", "-", "1", "3">>

\* the text of the tags input
FormTags == <<"x", ",", " ">>

\* task_data of the form
FormData(title, description, status) ==
    [ title       |-> PyStr(title),
      description |-> PyStr(description),
      priority    |-> Enum("Medium"),
      status      |-> Enum(status),
      due_date    |-> PyStr(FormDueDate),
      tags        |-> PyList(SplitTags(FormTags)) ]

\* descriptions handed to analyze_with_ai: empty, one character less than
\* MinDescriptionLength, MinDescriptionLength characters
AiDescriptions ==
    { <<>>, [i \in 1..(MinDescriptionLength - 1) |-> "d"],
      [i \in 1..MinDescriptionLength |-> "d"] }

\* generate_content: an error, an answer with the three keys, the same in a
\* code block with tags as one string, an answer that is no JSON, an answer
\* without effort
AiResponses ==
    { [raised |-> TRUE, text |-> <<>>],
      [raised |-> FALSE, text |->
          <<"{", "\"", "p", "r", "i", "o", "r", "i", "t", "y", "\"", ":",
            " ", "\"", "H", "i", "g", "h", "\"", ",", " ", "\"", "t",
            "a", "g", "s", "\"", ":", " ", "[", "\"", "w", "o", "r", "k",
            "\"", "]", ",", " ", "\"", "e", "f", "f", "o", "r", "t",
            "\"", ":", " ", "\"", "E", "a", "s", "y", "\"", "}">>],
      [raised |-> FALSE, text |->
          <<Backtick, Backtick, Backtick, "j", "s", "o", "n", "\n", "{", "\"", "p", "r",
            "i", "o", "r", "i", "t", "y", "\"", ":", " ", "\"", "L", "o",
            "w", "\"", ",", " ", "\"", "t", "a", "g", "s", "\"", ":",
            " ", "\"", "x", "\"", ",", " ", "\"", "e", "f", "f", "o",
            "r", "t", "\"", ":", " ", "\"", "H", "a", "r", "d", "\"",
            ",", " ", "\"", "s", "u", "m", "m", "a", "r", "y", "\"", ":",
            " ", "\"", "s", "\"", "}", "\n", Backtick, Backtick, Backtick>>],
      [raised |-> FALSE, text |->
          <<"S", "o", "r", "r", "y">>],
      [raised |-> FALSE, text |->
          <<"{", "\"", "p", "r", "i", "o", "r", "i", "t", "y", "\"", ":",
            " ", "\"", "H", "i", "g", "h", "\"", ",", " ", "\"", "t",
            "a", "g", "s", "\"", ":", " ", "[", "\"", "a", "\"", ",",
            " ", "\"", "b", "\"", "]", "}">>] }

\* variant: the sidebar button leaves edit_task_id as it is
toggle_task_form_KeepsEdit ==
    /\ call.op = "none"
    /\ session_state' = [session_state EXCEPT
                            !.show_task_form = ~session_state.show_task_form,
                            !.ai_suggestions = PyNone,
                            !.ai_analyzing = FALSE]
    /\ app_run' = [op |-> "toggle_task_form"]
    /\ UNCHANGED <<tasks_table, call, kk_file, kk_call, ai_helper>>

\* the sidebar button
toggle_task_form ==
    /\ call.op = "none"
    /\ session_state' = [ show_task_form |-> ~session_state.show_task_form,
                          edit_task_id   |-> PyNone,
                          ai_suggestions |-> PyNone,
                          ai_analyzing   |-> FALSE ]
    /\ app_run' = [op |-> "toggle_task_form"]
    /\ UNCHANGED <<tasks_table, call, kk_file, kk_call, ai_helper>>

\* the Edit button of a listed task
edit_task(task_id) ==
    /\ call.op = "none"
    /\ task_id \in RowIds(tasks_table)
    /\ session_state' = [ show_task_form |-> TRUE,
                          edit_task_id   |-> PyId(task_id),
                          ai_suggestions |-> PyNone,
                          ai_analyzing   |-> FALSE ]
    /\ app_run' = [op |-> "edit_task", task_id |-> task_id]
    /\ UNCHANGED <<tasks_table, call, kk_file, kk_call, ai_helper>>

\* the Cancel button of the edit form
cancel_edit ==
    /\ call.op = "none"
    /\ session_state.show_task_form
    /\ EditBranch
    /\ session_state' = [ show_task_form |-> FALSE,
                          edit_task_id   |-> PyNone,
                          ai_suggestions |-> PyNone,
                          ai_analyzing   |-> FALSE ]
    /\ app_run' = [op |-> "cancel_edit"]
    /\ UNCHANGED <<tasks_table, call, kk_file, kk_call, ai_helper>>

\* the callback of the Analyze button of the create form, for every
\* description and with or without an AiTaskHelper; the button itself is
\* drawn with a helper, for a description that is not blank
analyze_with_ai(description, response) ==
    LET result == analyze_task_description(description, response) IN
    /\ call.op = "none"
    /\ session_state.show_task_form
    /\ ~EditBranch
    /\ session_state' =
           IF ai_helper
           THEN IF result.raised
                THEN [session_state EXCEPT !.ai_analyzing = TRUE]
                ELSE [session_state EXCEPT !.ai_suggestions = result.value,
                                           !.ai_analyzing = FALSE]
           ELSE [session_state EXCEPT
                    !.ai_suggestions =
                        PyDict([success |-> FALSE,
                                message |-> "AI helper not available. Check your Gemini API key."]),
                    !.ai_analyzing = FALSE]
    /\ app_run' = [op |-> "analyze_with_ai", description |-> description,
                   raised |-> ai_helper /\ result.raised]
    /\ UNCHANGED <<tasks_table, call, kk_file, kk_call, ai_helper>>

\* Update Task of the edit form
update_task_submit(title, description, status, now) ==
    LET validation_result == validate_task_input(title, description) IN
    /\ session_state.show_task_form
    /\ EditBranch
    /\ call.op = "none"
    /\ IF validation_result.valid
       THEN /\ UpdateTaskCall(session_state.edit_task_id.v,
                              FormData(title, description, status), now)
            /\ session_state' = [ show_task_form |-> FALSE,
                                  edit_task_id   |-> PyNone,
                                  ai_suggestions |-> PyNone,
                                  ai_analyzing   |-> FALSE ]
       ELSE UNCHANGED <<tasks_table, call, session_state>>
    /\ app_run' = [op |-> "update_task_submit", title |-> title,
                   description |-> description, validation |-> validation_result]
    /\ UNCHANGED <<kk_file, kk_call, ai_helper>>

\* Create Task of the create form; task_id is generate_unique_id()
create_task_submit(title, description, task_id, now) ==
    LET validation_result == validate_task_input(title, description) IN
    /\ session_state.show_task_form
    /\ ~EditBranch
    /\ call.op = "none"
    /\ task_id \notin RowIds(tasks_table)
    /\ IF validation_result.valid
       THEN /\ AddTaskCall(task_id, FormData(title, description, "Not Started"), now)
            /\ session_state' = [session_state EXCEPT !.show_task_form = FALSE,
                                                      !.ai_suggestions = PyNone]
       ELSE UNCHANGED <<tasks_table, call, session_state>>
    /\ app_run' = [op |-> "create_task_submit", title |-> title,
                   description |-> description, validation |-> validation_result]
    /\ UNCHANGED <<kk_file, kk_call, ai_helper>>

----------------------------------------------------------------------------
(* Specifications *)

Init ==
    /\ tasks_table = <<>>
    /\ call = NoCall
    /\ kk_file = <<>>
    /\ kk_call = KkNoCall
    /\ session_state = NewSession
    /\ ai_helper = FALSE
    /\ app_run = NoRun

\* the DatabaseHandler
Next ==
    \/ \E task_id \in TaskIds, task_data \in TaskInputs, now \in QueryNows :
            add_task(task_id, task_data, now)
    \/ \E task_id \in TaskIds : delete_task(task_id)
    \/ \E search_query \in SearchQueries, filter_tag \in FilterTags,
          sort_by \in SortKeys, db_ok \in BOOLEAN :
            get_filtered_tasks(search_query, filter_tag, sort_by, db_ok)
    \/ \E today \in Todays, db_ok \in BOOLEAN : get_task_statistics(today, db_ok)
    \/ \E db_ok \in BOOLEAN : get_all_tags(db_ok)
    \/ Return

Spec == Init /\ [][Next]_vars

\* the DatabaseHandler with get_task_statistics as its only query
StatsNext ==
    \/ \E task_id \in TaskIds, task_data \in StatsInputs, now \in QueryNows :
            add_task(task_id, task_data, now)
    \/ \E task_id \in TaskIds : delete_task(task_id)
    \/ \E today \in StatsTodays, db_ok \in BOOLEAN : get_task_statistics(today, db_ok)
    \/ Return

StatsSpec == Init /\ [][StatsNext]_vars

\* the DatabaseHandler with its write operations
StoreNext ==
    \/ \E task_id \in TaskIds, task_data \in StoreAddInputs, now \in Nows :
            add_task(task_id, task_data, now)
    \/ \E task_id \in TaskIds, task_data \in UpdateInputs, now \in Nows :
            update_task(task_id, task_data, now)
    \/ \E task_id \in TaskIds : delete_task(task_id)
    \/ \E db_ok \in BOOLEAN : get_filtered_tasks(<<>>, PyNone, "Priority", db_ok)
    \/ \E today \in Todays, db_ok \in BOOLEAN : get_task_statistics(today, db_ok)
    \/ \E db_ok \in BOOLEAN : get_all_tags(db_ok)
    \/ Return

StoreSpec == Init /\ [][StoreNext]_vars

\* kk.py
KkNext ==
    \/ \E input \in KkTaskInputs : kk_add_task(input)
    \/ \E user \in KkUsers, task_id \in 1..MaxTasks, status \in {"Pending", "Completed"} :
            kk_update_task(user, task_id, status)
    \/ \E user \in KkUsers, task_id \in 1..MaxTasks : kk_delete_task(user, task_id)
    \/ \E user \in KkUsers : kk_get_tasks(user)
    \/ \E user \in KkUsers, sort_by \in {"Priority", "Due Date"} :
            kk_sort_tasks(user, sort_by)
    \/ KkReturn

KkSpec == Init /\ [][KkNext]_vars

\* app.py: the task form on the DatabaseHandler
AppInit ==
    /\ tasks_table = <<>>
    /\ call = NoCall
    /\ kk_file = <<>>
    /\ kk_call = KkNoCall
    /\ session_state = NewSession
    /\ ai_helper \in BOOLEAN
    /\ app_run = NoRun

AppNext ==
    \/ toggle_task_form
    \/ \E task_id \in TaskIds : edit_task(task_id)
    \/ cancel_edit
    \/ \E description \in AiDescriptions, response \in AiResponses :
            analyze_with_ai(description, response)
    \/ \E input \in FormInputs, status \in FormStatuses, now \in QueryNows :
            update_task_submit(input[1], input[2], status, now)
    \/ \E input \in FormInputs, task_id \in TaskIds, now \in QueryNows :
            create_task_submit(input[1], input[2], task_id, now)
    \/ Return

AppSpec == AppInit /\ [][AppNext]_vars

----------------------------------------------------------------------------
(* Vocabulary of the properties *)

IsFiltered == call.op = "get_filtered_tasks"

IsStatistics == call.op = "get_task_statistics"

\* text contains query, letter case ignored
MatchesIgnoringCase(query, text) ==
    \E off \in 0..(Len(text) - Len(query)) :
        \A k \in 1..Len(query) : LowerChar(text[off + k]) = LowerChar(query[k])

SearchHit(task, query) ==
    MatchesIgnoringCase(query, task.title) \/ MatchesIgnoringCase(query, task.description)

\* tag is one of the task's tags, character for character
CarriesTag(task, tag) ==
    task.tags.t = "list" /\ \E i \in 1..Len(task.tags.v) : task.tags.v[i] = tag

\* the task is in the returned collection
Returned(task) == \E j \in 1..Len(call.ret) : call.ret[j] = task

\* position of a returned task in the snapshot that was filtered and sorted
InputPos(task) == CHOOSE i \in 1..Len(call.all_tasks) : call.all_tasks[i] = task

\* the returned tasks are tasks of the snapshot, each once
ReturnedFromSnapshot ==
    /\ \A j \in 1..Len(call.ret) : \E i \in 1..Len(call.all_tasks) : call.all_tasks[i] = call.ret[j]
    /\ \A j, k \in 1..Len(call.ret) : j # k => call.ret[j].id # call.ret[k].id

\* the snapshot is what the table holds, or empty after a failed read
SnapshotOfTable ==
    call.all_tasks = get_all_tasks(tasks_table, TRUE) \/ call.all_tasks = <<>>

\* rank[j] the rank of the j-th returned task: non-decreasing, equal ranks
\* in input order
StablySortedBy(rank) ==
    \A j, k \in 1..Len(call.ret) :
        j < k => \/ rank[j] < rank[k]
                 \/ /\ rank[j] = rank[k]
                    /\ InputPos(call.ret[j]) < InputPos(call.ret[k])

PriorityRank(task) ==
    IF task.priority = "High" THEN 0 ELSE IF task.priority = "Low" THEN 2 ELSE 1

StatusRank(task) ==
    IF task.status = "In Progress" THEN 1 ELSE IF task.status = "Completed" THEN 2 ELSE 0

\* the task has a due date that is a valid YYYY-MM-DD date
Dated(task) == task.due_date.t = "str" /\ Strptime(task.due_date.v).ok

\* d1 is an earlier calendar day than d2, or the same day
NotAfter(d1, d2) ==
    \/ d1[1] < d2[1]
    \/ d1[1] = d2[1] /\ d1[2] < d2[2]
    \/ d1[1] = d2[1] /\ d1[2] = d2[2] /\ d1[3] <= d2[3]

RECURSIVE SumOver(_, _)
SumOver(f, keys) ==
    IF keys = {} THEN 0
    ELSE LET k == CHOOSE x \in keys : TRUE IN f[k] + SumOver(f, keys \ {k})

\* number of snapshot tasks whose field has the value
CountOf(field, value) ==
    Cardinality({i \in 1..Len(call.all_tasks) : call.all_tasks[i][field] = value})

----------------------------------------------------------------------------
(* Properties of get_filtered_tasks *)

\* C1: with a non-empty search_query and no filter_tag, get_filtered_tasks
\* returns exactly the tasks it read whose title or description contains
\* search_query, letter case ignored: every returned task matches in one of
\* the two, every task not returned matches in neither.
C1_SearchReturnsExactlyMatches ==
    (IsFiltered /\ Len(call.args.search_query) > 0 /\ ~Truthy(call.args.filter_tag))
    => /\ SnapshotOfTable
       /\ ReturnedFromSnapshot
       /\ \A i \in 1..Len(call.all_tasks) :
              Returned(call.all_tasks[i])
                  <=> SearchHit(call.all_tasks[i], call.args.search_query)

\* C1 witness: a task found through its description only, in another letter
\* case, while another task is left out.
C1_Witness ==
    /\ IsFiltered /\ Len(call.args.search_query) > 0 /\ ~Truthy(call.args.filter_tag)
    /\ Len(call.all_tasks) = 2 /\ Len(call.ret) = 1
    /\ ~MatchesIgnoringCase(call.args.search_query, call.ret[1].title)
    /\ ~Contains(call.args.search_query, call.ret[1].description)

\* C2: a task is retained if and only if (search_query is empty or matches
\* title or description) and (filter_tag is empty or absent, or is one of the
\* task's tags); with both empty every task is returned.
C2_FiltersConjunctive ==
    IsFiltered
    => \A i \in 1..Len(call.all_tasks) :
           Returned(call.all_tasks[i])
               <=> /\ \/ Len(call.args.search_query) = 0
                      \/ SearchHit(call.all_tasks[i], call.args.search_query)
                   /\ \/ ~Truthy(call.args.filter_tag)
                      \/ CarriesTag(call.all_tasks[i], call.args.filter_tag.v)

\* C3: with a filter_tag given, a task is retained only when filter_tag is,
\* character for character, one of its tags (a comma-separated string of
\* tags counts as its trimmed, non-empty parts); when no task carries the
\* tag the returned collection is empty.
C3_TagFilterExactMember ==
    (IsFiltered /\ Truthy(call.args.filter_tag))
    => /\ ReturnedFromSnapshot
       /\ \A j \in 1..Len(call.ret) : CarriesTag(call.ret[j], call.args.filter_tag.v)
       /\ (\A i \in 1..Len(call.all_tasks) :
               ~CarriesTag(call.all_tasks[i], call.args.filter_tag.v)) => call.ret = <<>>

\* C3 witness: the tag filter keeps the task tagged "x" and drops the task
\* whose tags came from the string "X, y," and differ from it in case only.
C3_Witness ==
    /\ IsFiltered /\ Truthy(call.args.filter_tag)
    /\ Len(call.ret) = 1
    /\ \E i \in 1..Len(call.all_tasks) :
           /\ ~Returned(call.all_tasks[i])
           /\ call.all_tasks[i].tags.t = "list"
           /\ \E n \in 1..Len(call.all_tasks[i].tags.v) :
                  /\ call.all_tasks[i].tags.v[n] # call.args.filter_tag.v
                  /\ Lower(call.all_tasks[i].tags.v[n]) = Lower(call.args.filter_tag.v)

\* C4: with sort_by = "Priority" the returned tasks are in non-decreasing
\* order under High < Medium < Low, an unknown priority ranking as Medium,
\* and tasks of equal rank keep their input order.
C4_PrioritySortStable ==
    (IsFiltered /\ call.args.sort_by = "Priority")
    => /\ ReturnedFromSnapshot
       /\ StablySortedBy([j \in 1..Len(call.ret) |-> PriorityRank(call.ret[j])])

\* C4 witness: a Low task read before a task of unknown priority is returned
\* after it.
C4_Witness ==
    /\ IsFiltered /\ call.args.sort_by = "Priority"
    /\ Len(call.ret) = 2
    /\ call.ret[1].priority \notin {"High", "Medium", "Low"}
    /\ call.ret[2].priority = "Low"
    /\ InputPos(call.ret[2]) < InputPos(call.ret[1])

\* C6: with sort_by = "Status" the returned tasks are in non-decreasing order
\* under Not Started < In Progress < Completed, an unknown status ranking as
\* Not Started, and tasks of equal rank keep their input order.
C6_StatusSortStable ==
    (IsFiltered /\ call.args.sort_by = "Status")
    => /\ ReturnedFromSnapshot
       /\ StablySortedBy([j \in 1..Len(call.ret) |-> StatusRank(call.ret[j])])

\* C6 witness: an In Progress task read before a task of unknown status is
\* returned after it.
C6_Witness ==
    /\ IsFiltered /\ call.args.sort_by = "Status"
    /\ Len(call.ret) = 2
    /\ call.ret[1].status \notin {"Not Started", "In Progress", "Completed"}
    /\ call.ret[2].status = "In Progress"
    /\ InputPos(call.ret[2]) < InputPos(call.ret[1])

\* C7: with sort_by = "Due Date" the dated tasks come in ascending calendar
\* order, every task without a valid due date comes after every dated task,
\* and the undated tasks keep their input order.
C7_UndatedAfterDated ==
    (IsFiltered /\ call.args.sort_by = "Due Date")
    => \A j, k \in 1..Len(call.ret) :
           j < k =>
               /\ (Dated(call.ret[j]) /\ Dated(call.ret[k]))
                      => NotAfter(Strptime(call.ret[j].due_date.v).date,
                                  Strptime(call.ret[k].due_date.v).date)
               /\ ~(~Dated(call.ret[j]) /\ Dated(call.ret[k]))
               /\ (~Dated(call.ret[j]) /\ ~Dated(call.ret[k]))
                      => InputPos(call.ret[j]) < InputPos(call.ret[k])

\* C16: whether a well-formed task (its tags a list) is retained depends on
\* that task alone, the query and the tag: it is retained exactly when it
\* matches them, whatever the other stored tasks hold (tags that are null
\* instead of a list, for one).
C16_MalformedRecordRejectsNoOther ==
    IsFiltered
    => \A i \in 1..Len(call.all_tasks) :
           call.all_tasks[i].tags.t = "list"
           => (Returned(call.all_tasks[i])
                   <=> /\ \/ Len(call.args.search_query) = 0
                          \/ SearchHit(call.all_tasks[i], call.args.search_query)
                       /\ \/ ~Truthy(call.args.filter_tag)
                          \/ CarriesTag(call.all_tasks[i], call.args.filter_tag.v))

----------------------------------------------------------------------------
(* Properties of get_task_statistics *)

\* C9: the values of status_counts sum to total_tasks, and total_tasks is the
\* number of tasks read.
C9_StatusCountsSumToTotal ==
    IsStatistics
    => /\ SnapshotOfTable
       /\ call.ret.total_tasks = Len(call.all_tasks)
       /\ SumOver(call.ret.status_counts, DOMAIN call.ret.status_counts)
              = call.ret.total_tasks

\* C9 witness: two tasks are counted, one of them under a status outside the
\* three enumerated values.
C9_Witness ==
    /\ IsStatistics
    /\ call.ret.total_tasks = 2
    /\ \E i \in 1..Len(call.all_tasks) :
           call.all_tasks[i].status \notin {"Not Started", "In Progress", "Completed"}

\* C10: status_counts has the keys Not Started, In Progress and Completed and
\* priority_counts the keys High, Medium and Low, each with the number of
\* tasks read that have the value, 0 when there is none; so too for an empty
\* table and after a failed read.
C10_AllEnumKeysPresent ==
    IsStatistics
    => /\ \A st \in {"Not Started", "In Progress", "Completed"} :
              /\ st \in DOMAIN call.ret.status_counts
              /\ call.ret.status_counts[st] = CountOf("status", st)
       /\ \A p \in {"High", "Medium", "Low"} :
              /\ p \in DOMAIN call.ret.priority_counts
              /\ call.ret.priority_counts[p] = CountOf("priority", p)

\* C10 witness: the read failed on a table that holds tasks, and the report
\* has the six keys at 0.
C10_Witness ==
    /\ IsStatistics
    /\ Len(tasks_table) > 0 /\ call.all_tasks = <<>>
    /\ \A st \in {"Not Started", "In Progress", "Completed"} : call.ret.status_counts[st] = 0
    /\ \A p \in {"High", "Medium", "Low"} : call.ret.priority_counts[p] = 0

\* d1 is an earlier calendar day than d2
Before(d1, d2) == ~NotAfter(d2, d1)

\* the calendar day n days after d, for the days of one month that the
\* properties look at
DaysAfter(d, n) ==
    IF d[3] + n <= DaysInMonth(d[1], d[2]) THEN <<d[1], d[2], d[3] + n>>
    ELSE IF d[2] < 12 THEN <<d[1], d[2] + 1, d[3] + n - DaysInMonth(d[1], d[2])>>
    ELSE <<d[1] + 1, 1, d[3] + n - DaysInMonth(d[1], d[2])>>

\* the due date of a dated task
DueDay(task) == Strptime(task.due_date.v).date

\* the snapshot tasks that are not Completed and have a valid due date
OpenDated == {i \in 1..Len(call.all_tasks) :
                 call.all_tasks[i].status # "Completed" /\ Dated(call.all_tasks[i])}

\* C11: a task whose status or priority is not one of the enumerated values
\* is counted under Not Started (respectively Medium), and status_counts and
\* priority_counts have no key outside the three enumerated values.
C11_UnknownCountedUnderDefault ==
    IsStatistics
    => /\ DOMAIN call.ret.status_counts \subseteq {"Not Started", "In Progress", "Completed"}
       /\ DOMAIN call.ret.priority_counts \subseteq {"High", "Medium", "Low"}
       /\ "Not Started" \in DOMAIN call.ret.status_counts
       /\ call.ret.status_counts["Not Started"]
              = Cardinality({i \in 1..Len(call.all_tasks) :
                    call.all_tasks[i].status \notin {"In Progress", "Completed"}})
       /\ "Medium" \in DOMAIN call.ret.priority_counts
       /\ call.ret.priority_counts["Medium"]
              = Cardinality({i \in 1..Len(call.all_tasks) :
                    call.all_tasks[i].priority \notin {"High", "Low"}})

\* C12: overdue_count is the number of tasks read whose status is not
\* Completed and whose due date is present, a valid date, and strictly before
\* today's date at the time of the call.
C12_OverdueCount ==
    IsStatistics
    => call.ret.overdue_count
           = Cardinality({i \in OpenDated :
                 Before(DueDay(call.all_tasks[i]), call.args.today)})

\* C12 witness: one task is counted as overdue, next to a task that is due
\* before today but Completed, or due today.
C12_Witness ==
    /\ IsStatistics
    /\ call.ret.overdue_count = 1
    /\ \E i \in 1..Len(call.all_tasks) :
           /\ Dated(call.all_tasks[i])
           /\ \/ /\ call.all_tasks[i].status = "Completed"
                 /\ Before(DueDay(call.all_tasks[i]), call.args.today)
              \/ DueDay(call.all_tasks[i]) = call.args.today

\* C13: due_soon_count is the number of tasks read whose status is not
\* Completed and whose due date is present, a valid date, and in the range
\* from today to three days after today, both included; a task due today is
\* due soon and not overdue, no task is counted in both counts, and a
\* Completed task is counted in neither.
C13_DueSoonCount ==
    IsStatistics
    => LET today == call.args.today
           soon == {i \in OpenDated :
                       /\ NotAfter(today, DueDay(call.all_tasks[i]))
                       /\ NotAfter(DueDay(call.all_tasks[i]), DaysAfter(today, 3))}
           byThen == {i \in OpenDated :
                         NotAfter(DueDay(call.all_tasks[i]), DaysAfter(today, 3))}
       IN /\ call.ret.due_soon_count = Cardinality(soon)
          /\ call.ret.overdue_count + call.ret.due_soon_count = Cardinality(byThen)
          /\ (\A i \in OpenDated : DueDay(call.all_tasks[i]) = today)
                 => call.ret.overdue_count = 0

\* C13 witness: a task due three days after today is counted as due soon,
\* next to a task that is not: due four days after today, or Completed.
C13_Witness ==
    /\ IsStatistics
    /\ call.ret.due_soon_count = 1
    /\ Len(call.all_tasks) = 2
    /\ \E i \in OpenDated : DueDay(call.all_tasks[i]) = DaysAfter(call.args.today, 3)
    /\ \E i \in 1..Len(call.all_tasks) :
           /\ Dated(call.all_tasks[i])
           /\ \/ call.all_tasks[i].status = "Completed"
              \/ DueDay(call.all_tasks[i]) = DaysAfter(call.args.today, 4)

\* C14: a task with a missing or unparseable due date is counted in neither
\* overdue_count nor due_soon_count and raises no error: the two counts are
\* those of the tasks read that have a valid due date, and total_tasks,
\* status_counts and priority_counts count every task read, the undated ones
\* included.
C14_UndatedNeverCounted ==
    IsStatistics
    => LET today == call.args.today
           dated == SelectSeq(call.all_tasks, Dated)
           open == {i \in 1..Len(dated) : dated[i].status # "Completed"}
       IN /\ call.ret.total_tasks = Len(call.all_tasks)
          /\ call.ret.overdue_count
                 = Cardinality({i \in open : Before(DueDay(dated[i]), today)})
          /\ call.ret.due_soon_count
                 = Cardinality({i \in open :
                       /\ NotAfter(today, DueDay(dated[i]))
                       /\ NotAfter(DueDay(dated[i]), DaysAfter(today, 3))})
          /\ \A st \in DOMAIN call.ret.status_counts :
                 call.ret.status_counts[st] = CountOf("status", st)
          /\ \A p \in DOMAIN call.ret.priority_counts :
                 call.ret.priority_counts[p] = CountOf("priority", p)

\* C14 witness: a task without a due date that is not Completed is read next
\* to an overdue task; the overdue task is counted and both are in the total.
C14_Witness ==
    /\ IsStatistics
    /\ Len(call.all_tasks) = 2
    /\ \E i \in 1..Len(call.all_tasks) :
           ~Dated(call.all_tasks[i]) /\ call.all_tasks[i].status # "Completed"
    /\ call.ret.overdue_count = 1
    /\ call.ret.total_tasks = 2

----------------------------------------------------------------------------
(* Properties of get_all_tags *)

IsAllTags == call.op = "get_all_tags"

\* the tag has no leading or trailing whitespace and is not empty
IsTrimmed(tag) == Len(tag) > 0 /\ tag[1] # " " /\ tag[Len(tag)] # " "

\* the trimmed, non-empty tags of the snapshot tasks
SnapshotTags ==
    UNION {{Strip(call.all_tasks[i].tags.v[n]) : n \in 1..Len(call.all_tasks[i].tags.v)} :
               i \in {k \in 1..Len(call.all_tasks) : call.all_tasks[k].tags.t = "list"}}
        \ {<<>>}

\* C15: get_all_tags returns every tag of every task read, trimmed, without
\* empty entries, without duplicates and in lexicographic order: no returned
\* tag is empty or padded with whitespace.
C15_AllTagsTrimmedSorted ==
    IsAllTags
    => /\ \A j \in 1..Len(call.ret) : IsTrimmed(call.ret[j])
       /\ {call.ret[j] : j \in 1..Len(call.ret)} = SnapshotTags
       /\ \A j, k \in 1..Len(call.ret) : j < k => StrLess(call.ret[j], call.ret[k])

----------------------------------------------------------------------------
(* Properties of the task store *)

IsRead(op) == op \in {"get_filtered_tasks", "get_task_statistics", "get_all_tags"}

IsWrite(op) == op \in {"add_task", "update_task", "delete_task"}

IsUpdate == call.op = "update_task"

\* the stored task with the id
RowOf(rows, id) == CHOOSE row \in {rows[i] : i \in 1..Len(rows)} : row.id = id

\* C17: get_filtered_tasks, get_task_statistics and get_all_tags leave the
\* table as it is, and the table changes only in a step of add_task,
\* update_task or delete_task.
C17_ReadsLeaveStoreUnchanged ==
    [][ /\ IsRead(call'.op) => tasks_table' = tasks_table
        /\ tasks_table' # tasks_table => IsWrite(call'.op) ]_vars

\* C17 witness: get_all_tags has returned on a table that holds a task whose
\* tags are a list and a task whose tags are null.
C17_Witness ==
    /\ call.op = "get_all_tags"
    /\ Len(call.all_tasks) = 2
    /\ \E i \in 1..Len(tasks_table) : tasks_table[i].tags.t = "none"
    /\ \E i \in 1..Len(tasks_table) : tasks_table[i].tags.t = "list"

\* the update is the one that completes the task for the first time: the
\* stored status is not Completed, completed_at is not set, the new status
\* is Completed
FirstCompletion(old, args) ==
    /\ old.id = args.task_id
    /\ args.task_data.status = Enum("Completed")
    /\ old.status # Enum("Completed")
    /\ old.completed_at = PyNone

\* C18: completed_at is set by the update_task call that first moves the
\* task from a status other than Completed to Completed, to the time of that
\* call; every other update_task call leaves completed_at of every task as
\* it was, set or not.
C18_CompletedAtOnFirstTransition ==
    [][ call'.op = "update_task"
        => \A id \in RowIds(tasks_table) :
               /\ id \in RowIds(tasks_table')
               /\ RowOf(tasks_table', id).completed_at
                      = IF FirstCompletion(RowOf(tasks_table, id), call'.args)
                        THEN PyTime(call'.args.now)
                        ELSE RowOf(tasks_table, id).completed_at ]_vars

\* the column value update_task is to store for a given field
GivenValue(field, value) ==
    IF field = "due_date" THEN PyDate(Strptime(value.v).date) ELSE value

\* the fields of task_data that carry a value
GivenFields(task_data) ==
    {f \in DOMAIN task_data : task_data[f].t \notin {"missing", "none"}}

\* C19: update_task on an id in the table stores the given fields in that
\* task and returns True, whatever the new status, Completed included; on
\* an id not in the table it returns False and the table stays as it is; in
\* both cases every other task stays as it is.
C19_UpdateAppliesAndReports ==
    [][ call'.op = "update_task"
        => LET args == call'.args IN
           /\ RowIds(tasks_table') = RowIds(tasks_table)
           /\ \A id \in RowIds(tasks_table) \ {args.task_id} :
                  RowOf(tasks_table', id) = RowOf(tasks_table, id)
           /\ IF args.task_id \in RowIds(tasks_table)
              THEN /\ call'.ret = TRUE
                   /\ \A f \in GivenFields(args.task_data) :
                          RowOf(tasks_table', args.task_id)[f]
                              = GivenValue(f, args.task_data[f])
              ELSE /\ call'.ret = FALSE
                   /\ tasks_table' = tasks_table ]_vars

\* C20: created_at of a task is the time at which add_task inserted it, and
\* update_task leaves created_at and the id of every task as they were.
C20_CreatedAtAndIdPreserved ==
    [][ /\ (call'.op = "add_task" /\ tasks_table' # tasks_table)
            => /\ tasks_table' = Append(tasks_table, tasks_table'[Len(tasks_table')])
               /\ tasks_table'[Len(tasks_table')].id = call'.args.task_id
               /\ tasks_table'[Len(tasks_table')].created_at = PyTime(call'.args.now)
        /\ call'.op = "update_task"
            => /\ Len(tasks_table') = Len(tasks_table)
               /\ \A i \in 1..Len(tasks_table) :
                      /\ tasks_table'[i].id = tasks_table[i].id
                      /\ tasks_table'[i].created_at = tasks_table[i].created_at ]_vars

\* C20 witness: update_task has changed a task at a time other than the
\* time the task was created at.
C20_Witness ==
    /\ IsUpdate /\ call.ret = TRUE
    /\ RowOf(tasks_table, call.args.task_id).created_at # PyTime(call.args.now)
    /\ RowOf(tasks_table, call.args.task_id).title = call.args.task_data.title

\* C26: update_task is a partial update: a field that is absent from
\* task_data, or None in it, keeps its stored value in the task, for every
\* field, tags and due_date included.
C26_AbsentFieldsKept ==
    [][ call'.op = "update_task"
        => LET args == call'.args IN
           \A id \in RowIds(tasks_table) :
               /\ id \in RowIds(tasks_table')
               /\ \A f \in DOMAIN args.task_data \ GivenFields(args.task_data) :
                      RowOf(tasks_table', id)[f] = RowOf(tasks_table, id)[f] ]_vars

\* the connection events of the call that has returned; the queries are
\* one call of get_all_tasks
ConnectionOf(c) ==
    IF c.op = "update_task" THEN UpdateTaskConnection(c.args.task_data) ELSE OneStatement

\* C27: every statement of a DatabaseHandler operation is executed on an
\* open connection, and the connection is closed when the operation
\* returns, also when the operation calls another one.
C27_ExecuteOnOpenConnection ==
    call.op # "none"
    => /\ ~ExecutesOnClosed(ConnectionOf(call))
       /\ ~ConnOpenAfter(ConnectionOf(call), Len(ConnectionOf(call)))

\* no two elements of the sequence have the same id
IdsUnique(tasks) == \A i, j \in 1..Len(tasks) : i # j => tasks[i].id # tasks[j].id

\* C22: add_task with an id that is already stored returns without raising
\* and leaves the table as it is: the stored task is not replaced or
\* altered and no second task with the id is added; the ids in the table,
\* and in what get_all_tasks returns, are pairwise different.
C22_DuplicateIdRefused ==
    [][ call'.op = "add_task"
        => /\ call'.ret = <<>>
           /\ call'.args.task_id \in RowIds(tasks_table) => tasks_table' = tasks_table
           /\ IdsUnique(tasks_table')
           /\ IdsUnique(get_all_tasks(tasks_table', TRUE)) ]_vars

\* C22 witness: add_task has returned for an id whose stored task was
\* created at another time: the call met a stored id.
C22_Witness ==
    /\ call.op = "add_task"
    /\ call.args.task_id \in RowIds(tasks_table)
    /\ RowOf(tasks_table, call.args.task_id).created_at # PyTime(call.args.now)

\* C23: delete_task(id) on a stored id returns True and removes the task:
\* get_task_by_id(id) is then None and get_all_tasks has no task with the id;
\* on an id that is not stored it returns False and the table stays as it
\* is; every other task stays as it was.
C23_DeleteRemovesAndReports ==
    [][ call'.op = "delete_task"
        => LET id == call'.args.task_id IN
           /\ call'.ret = (id \in RowIds(tasks_table))
           /\ call'.ret = FALSE => tasks_table' = tasks_table
           /\ get_task_by_id(tasks_table', id) = PyNone
           /\ \A i \in 1..Len(get_all_tasks(tasks_table', TRUE)) :
                  get_all_tasks(tasks_table', TRUE)[i].id # id
           /\ RowIds(tasks_table') = RowIds(tasks_table) \ {id}
           /\ \A other \in RowIds(tasks_table) \ {id} :
                  RowOf(tasks_table', other) = RowOf(tasks_table, other) ]_vars

\* C23 witness: delete_task has returned True and another task is still
\* stored.
C23_Witness ==
    /\ call.op = "delete_task" /\ call.ret = TRUE
    /\ Len(tasks_table) = 1
    /\ tasks_table[1].id # call.args.task_id

\* the task get_task_by_id and get_all_tasks return for the id agree
ReadsAgree(rows, id) ==
    /\ Truthy(get_task_by_id(rows, id))
    /\ \E i \in 1..Len(get_all_tasks(rows, TRUE)) :
           get_all_tasks(rows, TRUE)[i] = get_task_by_id(rows, id).v

\* the value of an optional key of task_data, default when the key is absent
Given(x, default) == IF x.t = "missing" THEN default ELSE x.v

\* the id of the step, when the step is an add_task with an id that is not
\* in the table
AddedId ==
    IF call'.op = "add_task" /\ call.op = "none"
    THEN {call'.args.task_id} \ RowIds(tasks_table) ELSE {}

----------------------------------------------------------------------------
(* Properties of kk.sort_tasks *)

KkIsSort == kk_call.op = "sort_tasks"

KkPriorityRank(task) ==
    IF task.Priority = "High" THEN 1 ELSE IF task.Priority = "Low" THEN 3 ELSE 2

\* C5: kk.sort_tasks with sort_by = "Priority" returns the user's tasks with
\* High before Medium before Low, an unknown priority ranking as Medium.
C5_KkPriorityOrder ==
    (KkIsSort /\ kk_call.sort_by = "Priority")
    => \A j, k \in 1..Len(kk_call.ret) :
           j < k => KkPriorityRank(kk_call.ret[j]) <= KkPriorityRank(kk_call.ret[k])

\* C8: sorting by due date does not raise on a due date string that is not a
\* valid YYYY-MM-DD date: the collection is returned in full.
C8_DueDateSortNeverRaises ==
    (KkIsSort /\ kk_call.sort_by = "Due Date")
    => /\ ~kk_call.raised
       /\ Len(kk_call.ret) = Len(kk_get_tasks_of(kk_file, kk_call.user))

\* C21: after any sequence of kk add_task and delete_task calls the stored
\* tasks have pairwise different IDs.
C21_KkIdsUnique ==
    \A i, j \in 1..Len(kk_file) : i # j => kk_file[i].ID # kk_file[j].ID

\* the tasks get_tasks(user) does not return
KkOthers(tasks, user) ==
    SelectSeq(tasks, LAMBDA task : ~(task.User = user \/ task.AssignedTo = user))

\* C30: get_tasks(user) returns exactly the tasks whose User or Assigned To
\* is user, and an update_task or delete_task made in the session of a user
\* leaves every task that get_tasks(user) does not return as it was.
C30_KkUserIsolation ==
    [][ /\ kk_call'.op = "get_tasks"
            => /\ \A j \in 1..Len(kk_call'.ret) :
                      \/ kk_call'.ret[j].User = kk_call'.user
                      \/ kk_call'.ret[j].AssignedTo = kk_call'.user
               /\ Len(kk_call'.ret) + Len(KkOthers(kk_file, kk_call'.user)) = Len(kk_file)
        /\ kk_call'.op \in {"update_task", "delete_task"}
            => KkOthers(kk_file', kk_call'.user) = KkOthers(kk_file, kk_call'.user) ]_vars

----------------------------------------------------------------------------
(* Properties of the task form of app.py *)

\* some character of s is not white space
HasText(s) == \E i \in 1..Len(s) : ~IsSpace(s[i])

\* the task a form may store
Acceptable(title, description) ==
    HasText(title) /\ Len(title) <= MaxTitleLength /\ HasText(description)

\* the message of the first check that fails: title empty, title too long,
\* description empty
FirstFailure(title, description) ==
    IF ~HasText(title) THEN "Task title cannot be empty"
    ELSE IF Len(title) > MaxTitleLength
    THEN "Task title is too long (maximum 100 characters)"
    ELSE "Task description cannot be empty"

Submits == {"create_task_submit", "update_task_submit"}

\* C25: validate_task_input accepts a title and a description exactly when
\* the title has a character that is not white space and is at most 100
\* characters long and the description has a character that is not white
\* space; otherwise the result is not valid and carries the message of the
\* first failing check.  A form submit calls add_task (create) or
\* update_task (edit) only with a valid result, and with a result that is
\* not valid it leaves the table as it is.
C25_ValidatedBeforeStore ==
    [][ /\ app_run'.op \in Submits
            => LET v == app_run'.validation IN
               /\ v.valid = Acceptable(app_run'.title, app_run'.description)
               /\ ~v.valid => v.message = FirstFailure(app_run'.title,
                                                       app_run'.description)
        /\ (call.op = "none" /\ call'.op # "none")
            => /\ app_run'.op \in Submits
               /\ app_run'.validation.valid
               /\ call'.op = IF app_run'.op = "create_task_submit"
                             THEN "add_task" ELSE "update_task"
        /\ (call.op = "none" /\ app_run'.op \in Submits /\ ~app_run'.validation.valid)
            => /\ tasks_table' = tasks_table
               /\ call' = call ]_vars

\* C25 witness: the create form has stored a task whose title is 100
\* characters long.
C25_Witness ==
    /\ app_run.op = "create_task_submit"
    /\ Len(app_run.title) = MaxTitleLength
    /\ app_run.validation.valid
    /\ call.op = "add_task"
    /\ \E i \in 1..Len(tasks_table) :
           /\ tasks_table[i].id = call.args.task_id
           /\ tasks_table[i].title = PyStr(app_run.title)

\* C28: edit_task_id is other than None only while show_task_form is True;
\* toggle_task_form and cancel_edit leave edit_task_id None, and
\* edit_task(id) leaves the form shown with edit_task_id = id.
C28_EditOnlyWhileFormShown ==
    /\ session_state.edit_task_id # PyNone => session_state.show_task_form
    /\ app_run.op \in {"toggle_task_form", "cancel_edit"}
           => session_state.edit_task_id = PyNone
    /\ app_run.op = "edit_task"
           => /\ session_state.edit_task_id = PyId(app_run.task_id)
              /\ session_state.show_task_form

\* C28 witness: after a task was created by the form and the form closed,
\* edit_task has opened the form on a task.
C28_Witness ==
    /\ app_run.op = "edit_task"
    /\ session_state.edit_task_id # PyNone
    /\ session_state.show_task_form
    /\ tasks_table # <<>>

\* C29: ai_analyzing is False when a callback has returned; ai_suggestions
\* is None after toggle_task_form, edit_task and cancel_edit; after
\* analyze_with_ai it is a dict with the key success, with success False
\* when there is no AI helper or the description is shorter than 5
\* characters, and analyze_with_ai has raised no exception.
C29_AnalysisAlwaysSettles ==
    /\ ~session_state.ai_analyzing
    /\ app_run.op \in {"toggle_task_form", "edit_task", "cancel_edit"}
           => session_state.ai_suggestions = PyNone
    /\ app_run.op = "analyze_with_ai"
           => /\ ~app_run.raised
              /\ session_state.ai_suggestions.t = "dict"
              /\ "success" \in DOMAIN session_state.ai_suggestions.v
              /\ session_state.ai_suggestions.v.success \in BOOLEAN
              /\ (~ai_helper \/ Len(app_run.description) < MinDescriptionLength)
                     => ~session_state.ai_suggestions.v.success

\* C29 witness: with an AI helper, analyze_with_ai has returned on a
\* description of 5 characters whose analysis failed with an error of the
\* API or an answer in no valid format.
C29_Witness ==
    /\ app_run.op = "analyze_with_ai"
    /\ ai_helper
    /\ Len(app_run.description) = MinDescriptionLength
    /\ session_state.ai_suggestions.t = "dict"
    /\ ~session_state.ai_suggestions.v.success

====
